---- MODULE Spec2Model ----
(***************************************************************************)
(* A model of svd_parser.py: the extraction of peripherals, registers and  *)
(* fields from an SVD tree (get_peripherals, process_registers,            *)
(* process_fields, process_values), the normalisation of the peripheral    *)
(* list, and the emission steps of the main program.                       *)
(*                                                                         *)
(* Texts are sequences of one-character strings, so that upper(), slicing, *)
(* string comparison and the parsing and formatting of numbers are         *)
(* modelled by what they do.  An optional value (an absent XML element or  *)
(* attribute, Python's None) is a sequence of length 0 or 1.               *)
(*                                                                         *)
(* The records carry no description: the texts process_description         *)
(* returns are copied into the output and decide nothing modelled here.    *)
(* process_description itself is modelled on its own, and the absence of a *)
(* description element in the extraction of a schema that lacks elements.  *)
(***************************************************************************)
EXTENDS Integers, Sequences, FiniteSets, TLC

VARIABLES
    pc,            \* get_peripherals: position in the function
    tree_i,        \* get_peripherals: number of nodes of the tree read so far
    node,          \* get_peripherals: the node read last (tree[i]), as an optional
    includes,      \* get_peripherals: the include filter (None or a list of texts)
    peripherals,   \* get_peripherals: the list built by the extraction loop
    retained,      \* get_peripherals: `peripherals` as rebound by the include filter
    result,        \* get_peripherals: the list returned (`temp`)
    address_list,  \* create_addresses_file: the macros of the default address list
    rpc,           \* registers: position (process_registers, then create_base_files)
    rtree,         \* registers: the <registers> container of the node, as an optional
    registers,     \* registers: the list process_registers returned
    layout,        \* registers: what create_base_files renders for the peripheral
    mpc,           \* main: position in the main program
    args,          \* main: the flags --base, --fields, --drivers as parsed
    model,         \* main: `peripherals`, the normalized list that is emitted
    files,         \* main: the files written so far
    format_calls,  \* main: the calls of run_clang_format so far, with their outcomes
    schema,        \* main: the <peripherals> tree of the .svd source, elements optional
    need_json,     \* main: the flag --json as parsed
    dpc,           \* process_description: position in the function
    description,   \* process_description: the text being reflowed
    begin          \* process_description: what find returned last, as an optional

pvars == <<pc, tree_i, node, includes, peripherals, retained, result, address_list>>

rvars == <<rpc, rtree, registers, layout>>

mvars == <<mpc, args, model, files, format_calls>>

svars == <<schema, need_json>>

dvars == <<dpc, description, begin>>

vars == <<pvars, rvars, mvars, svars, dvars>>

-----------------------------------------------------------------------------
(* Bounds of the model. *)

MaxNodes == 3

MaxFields == 2

MaxRegisters == 3

MaxMainNodes == 2

-----------------------------------------------------------------------------
(* Optional values. *)

None == <<>>

Some(x) == <<x>>

-----------------------------------------------------------------------------
(* Characters and texts. *)

Digits == <<"0", "1", "2", "3", "4", "5", "6", "7", "8", "9">>

Lowercase == <<"a", "b", "c", "d", "e", "f", "g", "h", "i", "j", "k", "l", "m",
               "n", "o", "p", "q", "r", "s", "t", "u", "v", "w", "x", "y", "z">>

Uppercase == <<"A", "B", "C", "D", "E", "F", "G", "H", "I", "J", "K", "L", "M",
               "N", "O", "P", "Q", "R", "S", "T", "U", "V", "W", "X", "Y", "Z">>

IndexIn(c, alphabet) == CHOOSE k \in 1..Len(alphabet) : alphabet[k] = c

IsIn(c, alphabet) == \E k \in 1..Len(alphabet) : alphabet[k] = c

\* str.upper() on one character
CharUpper(c) == IF IsIn(c, Lowercase) THEN Uppercase[IndexIn(c, Lowercase)] ELSE c

\* str.upper()
Upper(s) == [k \in 1..Len(s) |-> CharUpper(s[k])]

\* str.lower() on one character and on a text
CharLower(c) == IF IsIn(c, Uppercase) THEN Lowercase[IndexIn(c, Uppercase)] ELSE c

Lower(s) == [k \in 1..Len(s) |-> CharLower(s[k])]

\* the code point of a character (ASCII)
Ord(c) ==
    IF IsIn(c, Digits) THEN 47 + IndexIn(c, Digits)
    ELSE IF IsIn(c, Uppercase) THEN 64 + IndexIn(c, Uppercase)
    ELSE 96 + IndexIn(c, Lowercase)

\* s[n:]
DropFirst(s, n) == IF Len(s) <= n THEN <<>> ELSE SubSeq(s, n + 1, Len(s))

\* Python's s < t on strings: the first differing code point decides, a proper
\* prefix is smaller
StrLess(s, t) ==
    \/ /\ Len(s) < Len(t)
       /\ \A k \in 1..Len(s) : s[k] = t[k]
    \/ \E k \in 1..Len(s) :
          /\ k <= Len(t)
          /\ \A j \in 1..(k - 1) : s[j] = t[j]
          /\ Ord(s[k]) < Ord(t[k])

\* the value of one hexadecimal digit
HexDigitValue(c) ==
    IF IsIn(c, Digits) THEN IndexIn(c, Digits) - 1
    ELSE 9 + IndexIn(CharUpper(c), Uppercase)

RECURSIVE HexValue(_)
\* the value of a text of hexadecimal digits
HexValue(s) ==
    IF s = <<>> THEN 0
    ELSE 16 * HexValue(SubSeq(s, 1, Len(s) - 1)) + HexDigitValue(s[Len(s)])

HasHexPrefix(s) == Len(s) >= 2 /\ s[1] = "0" /\ CharUpper(s[2]) = "X"

\* int(text, 16): an optional 0x / 0X prefix, then hexadecimal digits
ParseInt16(s) == IF HasHexPrefix(s) THEN HexValue(DropFirst(s, 2)) ELSE HexValue(s)

RECURSIVE DecValue(_)
\* int(text, 10)
DecValue(s) ==
    IF s = <<>> THEN 0
    ELSE 10 * DecValue(SubSeq(s, 1, Len(s) - 1)) + (IndexIn(s[Len(s)], Digits) - 1)

HexDigitChar(d) == IF d < 10 THEN Digits[d + 1] ELSE Uppercase[d - 9]

RECURSIVE HexDigitsOf(_)
\* the uppercase hexadecimal digits of n, without padding (format spec X)
HexDigitsOf(n) ==
    IF n < 16 THEN <<HexDigitChar(n)>>
    ELSE Append(HexDigitsOf(n \div 16), HexDigitChar(n % 16))

\* f'0x{n:02X}'
FormatHex02X(n) ==
    LET d == HexDigitsOf(n)
    IN  <<"0", "x">> \o (IF Len(d) < 2 THEN <<"0">> \o d ELSE d)

RECURSIVE DecDigitsOf(_)
\* f'{n}'
DecDigitsOf(n) ==
    IF n < 10 THEN <<Digits[n + 1]>>
    ELSE Append(DecDigitsOf(n \div 10), Digits[(n % 10) + 1])

-----------------------------------------------------------------------------
(* Extraction of fields and registers. *)

RECURSIVE Pow2(_)
Pow2(n) == IF n <= 0 THEN 1 ELSE 2 * Pow2(n - 1)

ValuePrefix == <<"V", "a", "l", "u", "e">>

\* process_values with the bound off by one: values up to width 4
process_values_upto_4(width) ==
    IF width <= 4
    THEN [k \in 1..Pow2(width) |->
            [name |-> ValuePrefix \o DecDigitsOf(k - 1), value |-> k - 1]]
    ELSE <<>>

\* process_values: 2^width placeholder values when width < 4, none otherwise
process_values(width) ==
    IF width < 4
    THEN [k \in 1..Pow2(width) |->
            [name |-> ValuePrefix \o DecDigitsOf(k - 1), value |-> k - 1]]
    ELSE <<>>

\* the access expression of process_fields
field_access(branch) ==
    IF branch.access = None \/ branch.access = Some("read-write") THEN "RW"
    ELSE IF branch.access = Some("read-only") THEN "RO"
    ELSE "WO"

\* one iteration of the loop of process_fields, before the name test
process_field(branch) ==
    [name   |-> Upper(branch.name),
     offset |-> DecValue(branch.bitOffset),
     width  |-> DecValue(branch.bitWidth),
     access |-> field_access(branch),
     values |-> process_values(DecValue(branch.bitWidth))]

\* process_fields: no container gives no fields; a field named as its register
\* is dropped
process_fields(register, tree) ==
    IF tree = None THEN <<>>
    ELSE LET all == [k \in 1..Len(tree[1]) |-> process_field(tree[1][k])]
             Kept(f) == register # f.name
         IN  SelectSeq(all, Kept)

\* the access expression of process_registers
register_access(branch) ==
    IF branch.access = None \/ branch.access = Some("read-write") THEN "RW"
    ELSE IF branch.access = Some("read-only") THEN "RO"
    ELSE "WO"

\* the offset expression of process_registers
register_offset(branch) ==
    IF ParseInt16(branch.addressOffset) = 0 THEN <<"0">>
    ELSE FormatHex02X(ParseInt16(branch.addressOffset))

\* one iteration of the loop of process_registers
process_register(branch) ==
    [name   |-> Upper(branch.name),
     offset |-> register_offset(branch),
     width  |-> ParseInt16(branch.size),
     length |-> IF branch.array = None THEN 0 ELSE DecValue(branch.array[1]),
     access |-> register_access(branch),
     fields |-> process_fields(Upper(branch.name), branch.fields)]

\* process_registers: no container gives no registers
process_registers(tree) ==
    IF tree = None THEN <<>>
    ELSE [k \in 1..Len(tree[1]) |-> process_register(tree[1][k])]

-----------------------------------------------------------------------------
(* get_peripherals. *)

NoIndex == 0

\* get_derived_index: the first peripheral one of whose instances has the name
\* `derived`; NoIndex stands for the None it returns otherwise
get_derived_index(derived, list) ==
    LET Hit(k) == \E a \in 1..Len(list[k].derived) : derived = list[k].derived[a].name
    IN  IF \E k \in 1..Len(list) : Hit(k)
        THEN CHOOSE k \in 1..Len(list) : Hit(k) /\ \A j \in 1..(k - 1) : ~Hit(j)
        ELSE NoIndex

\* derived_of without the upper(): the reference compared as written
derived_of_as_written(n) == IF n.attrib = None THEN None ELSE Some(n.attrib[1])

\* derived = None if attrib == {} else attrib['derivedFrom'].upper()
derived_of(n) == IF n.attrib = None THEN None ELSE Some(Upper(n.attrib[1]))

\* the truth value Python gives an optional text: None and '' are false
Truthy(opt) == opt # None /\ opt[1] # <<>>

\* addresses = {'name': ..., 'address': f'0x{baseAddress.upper()[2:]}'}
addresses_of(n) ==
    [name    |-> Upper(n.name),
     address |-> <<"0", "x">> \o DropFirst(Upper(n.baseAddress), 2)]

\* the record appended for a node that is not derived
peripheral_of(n) ==
    [group     |-> Upper(n.groupName),
     derived   |-> <<addresses_of(n)>>,
     registers |-> process_registers(n.registers)]

\* the body of the extraction loop for node n: the list afterwards, or the
\* failure of peripherals[None] when the reference of n names no instance
extract_node(list, n) ==
    IF Truthy(derived_of(n))
    THEN LET at == get_derived_index(derived_of(n)[1], list)
         IN  IF at = NoIndex
             THEN [failed |-> TRUE, list |-> list]
             ELSE [failed |-> FALSE,
                   list   |-> [list EXCEPT ![at].derived = Append(@, addresses_of(n))]]
    ELSE [failed |-> FALSE, list |-> Append(list, peripheral_of(n))]

RECURSIVE extract_all(_)
\* the extraction loop over a whole tree
extract_all(tree) ==
    IF tree = <<>> THEN [failed |-> FALSE, list |-> <<>>]
    ELSE LET before == extract_all(SubSeq(tree, 1, Len(tree) - 1))
         IN  IF before.failed THEN before ELSE extract_node(before.list, tree[Len(tree)])

RECURSIVE filter_includes(_, _)
\* the include loop: for each include, in the order of the includes, the first
\* peripheral of that group
filter_includes(incs, list) ==
    IF incs = <<>> THEN <<>>
    ELSE LET Match(k) == Head(incs) = list[k].group
             first == IF \E k \in 1..Len(list) : Match(k)
                      THEN <<list[CHOOSE k \in 1..Len(list) :
                                     Match(k) /\ \A j \in 1..(k - 1) : ~Match(j)]>>
                      ELSE <<>>
         IN  first \o filter_includes(Tail(incs), list)

\* `peripherals` after the include filter: untouched when includes is None or []
retain(incs, list) ==
    IF incs # None /\ incs[1] # <<>> THEN filter_includes(incs[1], list) ELSE list

\* x inserted into the sorted list s behind every element whose key is not
\* greater: sorted() is stable
InsertByAddress(x, s) ==
    LET Greater(k) == StrLess(x.address, s[k].address)
        at == IF \E k \in 1..Len(s) : Greater(k)
              THEN CHOOSE k \in 1..Len(s) : Greater(k) /\ \A j \in 1..(k - 1) : ~Greater(j)
              ELSE Len(s) + 1
    IN  SubSeq(s, 1, at - 1) \o <<x>> \o SubSeq(s, at, Len(s))

RECURSIVE sorted_by_address(_)
\* sorted(peripheral['derived'], key=lambda item: item['address']): the keys are
\* strings
sorted_by_address(s) ==
    IF s = <<>> THEN <<>>
    ELSE InsertByAddress(s[Len(s)], sorted_by_address(SubSeq(s, 1, Len(s) - 1)))

\* one iteration of the normalising loop
normalize(p) ==
    IF Len(p.derived) = 1
    THEN [name |-> p.group, address |-> Some(p.derived[1].address),
          derived |-> None, registers |-> p.registers]
    ELSE [name |-> p.group, address |-> None,
          derived |-> Some(sorted_by_address(p.derived)), registers |-> p.registers]

\* the normalising loop over the retained peripherals
normalize_all(list) == [k \in 1..Len(list) |-> normalize(list[k])]

\* get_peripherals: the list returned, or the failure of the extraction
get_peripherals(tree, incs) ==
    IF extract_all(tree).failed THEN [failed |-> TRUE, list |-> <<>>]
    ELSE [failed |-> FALSE, list |-> normalize_all(retain(incs, extract_all(tree).list))]

-----------------------------------------------------------------------------
(* create_base_files: the declarations of one peripheral's base layout. *)

NameSuffix == <<"_", "n", "a", "m", "e">>

ParameterSuffix == <<"_", "a", "d", "d", "r", "e", "s", "s">>

\* generate_names: one name variable per element, "PERIPHERAL::ENTITY" at the
\* scope of a peripheral and "ENTITY" at the scope of a register
generate_names(peripheral, elements) ==
    [k \in 1..Len(elements) |->
        [variable |-> Lower(elements[k].name) \o NameSuffix,
         text     |-> IF peripheral = <<>> THEN elements[k].name
                      ELSE peripheral \o <<":", ":">> \o elements[k].name]]

\* the template's address parameters: the first register's is the parameter
\* without a default, every other one defaults to it plus the register's offset
template_addresses(regs) ==
    [k \in 1..Len(regs) |->
        IF k = 1
        THEN [parameter |-> Lower(regs[1].name) \o ParameterSuffix, default |-> None]
        ELSE [parameter |-> Lower(regs[k].name) \o ParameterSuffix,
              default   |-> Some([begin |-> Lower(regs[1].name) \o ParameterSuffix,
                                  plus  |-> FormatHex02X(ParseInt16(regs[k].offset))])]]

\* the test that renders a scalar register as one alias
is_single_alias(register) ==
    Len(register.fields) = 0 \/ register.width = register.fields[1].width

\* the declaration of one scalar register: an alias, or a class of field aliases
register_declaration(register) ==
    IF is_single_alias(register)
    THEN [kind |-> "alias", name |-> register.name, width |-> register.width,
          access |-> register.access, names |-> <<>>, fields |-> <<>>]
    ELSE [kind |-> "class", name |-> register.name, width |-> register.width,
          access |-> register.access,
          names  |-> generate_names(<<>>, register.fields),
          fields |-> [k \in 1..Len(register.fields) |->
                        [name   |-> register.fields[k].name,
                         offset |-> register.fields[k].offset,
                         width  |-> register.fields[k].width,
                         access |-> register.fields[k].access]]]

IsScalar(register) == register.length = 0

IsArray(register) == register.length # 0

\* one iteration of the loop of create_base_files
base_layout(peripheral) ==
    [addresses      |-> template_addresses(peripheral.registers),
     register_names |-> generate_names(peripheral.name, peripheral.registers),
     array_types    |-> SelectSeq(peripheral.registers, IsArray),
     registers_str  |-> LET scalar == SelectSeq(peripheral.registers, IsScalar)
                        IN  [k \in 1..Len(scalar) |-> register_declaration(scalar[k])]]

\* the address register k of the template gets when the template is
\* instantiated as <Name>Base<Target, base>
RegisterAddress(addresses, base, k) ==
    IF addresses[k].default = None THEN base
    ELSE base + ParseInt16(addresses[k].default[1].plus)

-----------------------------------------------------------------------------
(* create_addresses_file: the default address list. *)

AddressSuffix == <<"_", "A", "D", "D", "R", "E", "S", "S">>

\* #define <name>_ADDRESS <address>
Macro(name, address) == [macro |-> name \o AddressSuffix, value |-> address]

\* the macros of one peripheral
macros_of(p) ==
    IF p.address # None /\ p.address[1] # <<>>
    THEN <<Macro(p.name, p.address[1])>>
    ELSE [k \in 1..Len(p.derived[1]) |->
            Macro(p.derived[1][k].name, p.derived[1][k].address)]

RECURSIVE default_address_list(_)
default_address_list(list) ==
    IF list = <<>> THEN <<>>
    ELSE default_address_list(SubSeq(list, 1, Len(list) - 1)) \o macros_of(list[Len(list)])

-----------------------------------------------------------------------------
(* The inputs of get_peripherals. *)

NameTexts == {<<"t", "1">>, <<"T", "2">>}

DerivedFromTexts == {<<"T", "1">>, <<"t", "2">>, <<"T", "3">>}

GroupTexts == {<<"t", "i", "m">>, <<"G", "P">>}

IncludeTexts == {<<"T", "I", "M">>, <<"G", "P">>}

BaseAddressTexts == {<<"0", "x", "5">>, <<"0", "x", "4", "a">>}

\* a node that defines a peripheral
PlainNodes ==
    [attrib : {None}, name : NameTexts, baseAddress : BaseAddressTexts,
     groupName : GroupTexts, registers : {None}]

\* a node derived from another: its group and registers are not read
DerivedNodes ==
    [attrib : {Some(t) : t \in DerivedFromTexts}, name : NameTexts,
     baseAddress : BaseAddressTexts, groupName : {<<>>}, registers : {None}]

Nodes == PlainNodes \cup DerivedNodes

\* --include: absent, or one or two group names
IncludeLists ==
    {None} \cup {Some(<<a>>) : a \in IncludeTexts}
           \cup {Some(<<a, b>>) : a \in IncludeTexts, b \in IncludeTexts}

-----------------------------------------------------------------------------
(* The inputs of process_registers. *)

\* register k and field j of a container are named by their position; a field
\* may instead carry the name of the first register
RegisterNameAt(k) == <<"r", Digits[k + 1]>>

FieldNameAt(j, own) == IF own THEN <<"f", Digits[j + 1]>> ELSE <<"R", "1">>

FieldWidths == {1, 3, 4, 8}

AccessTexts == {None, Some("read-write"), Some("read-only"), Some("write-only"),
                Some("read-writeOnce")}

OffsetTexts == {<<"0", "x", "0">>, <<"0", "x", "4">>, <<"1", "c">>}

\* what is chosen for one field node, and the node
FieldChoices == [own : BOOLEAN, width : FieldWidths, access : AccessTexts]

FieldBranch(j, c) ==
    [name |-> FieldNameAt(j, c.own), bitOffset |-> <<"0">>,
     bitWidth |-> DecDigitsOf(c.width), access |-> c.access]

\* what is chosen for a scalar register with fields, 8 or 16 bits wide, and the
\* container of this one register
RegisterChoices == [size : {<<"8">>, <<"0", "x", "1", "0">>}, access : AccessTexts]

RegisterWithFields(c, fields) ==
    Some(<<[name |-> RegisterNameAt(1), addressOffset |-> <<"0", "x", "0">>,
            size |-> c.size, array |-> None, access |-> c.access, fields |-> fields]>>)

\* what is chosen for a register without fields, scalar or array, and the
\* register node
PlainRegisterChoices == [addressOffset : OffsetTexts, array : {None, Some(<<"2">>)}]

PlainRegister(k, c) ==
    [name |-> RegisterNameAt(k), addressOffset |-> c.addressOffset,
     size |-> <<"0", "x", "2", "0">>, array |-> c.array, access |-> None,
     fields |-> None]

\* the peripheral whose base layout is rendered
LayoutPeripheralName == <<"G", "P">>

-----------------------------------------------------------------------------
(* get_peripherals as a state machine. *)

NoLayout == [addresses |-> <<>>, register_names |-> <<>>, array_types |-> <<>>,
             registers_str |-> <<>>]

PeripheralsIdle ==
    /\ pc = "extract"
    /\ tree_i = 0
    /\ node = None
    /\ peripherals = <<>>
    /\ retained = <<>>
    /\ result = <<>>
    /\ address_list = <<>>

RegistersIdle ==
    /\ rpc = "extract"
    /\ rtree = None
    /\ registers = <<>>
    /\ layout = NoLayout

NoArgs == [base |-> FALSE, fields |-> FALSE, drivers |-> FALSE]

MainIdle ==
    /\ mpc = "source"
    /\ args = NoArgs
    /\ model = <<>>
    /\ files = {}
    /\ format_calls = <<>>

SchemaIdle ==
    /\ schema = <<>>
    /\ need_json = FALSE

DescriptionIdle ==
    /\ dpc = "find"
    /\ description = <<>>
    /\ begin = None

Init ==
    /\ PeripheralsIdle
    /\ includes \in IncludeLists
    /\ RegistersIdle
    /\ MainIdle
    /\ SchemaIdle
    /\ DescriptionIdle

\* one iteration of the extraction loop, on the next node of the tree.  An
\* unresolved reference indexes the list with None: the TypeError ends the run.
ExtractNode(n) ==
    /\ pc = "extract"
    /\ tree_i < MaxNodes
    /\ tree_i' = tree_i + 1
    /\ node' = Some(n)
    /\ pc' = IF extract_node(peripherals, n).failed THEN "failed" ELSE "extract"
    /\ peripherals' = extract_node(peripherals, n).list
    /\ UNCHANGED <<includes, retained, result, address_list, rvars, mvars, svars, dvars>>

\* the end of the tree: the include filter, the normalising loop, the return
Normalize ==
    /\ pc = "extract"
    /\ pc' = "done"
    /\ retained' = retain(includes, peripherals)
    /\ result' = normalize_all(retain(includes, peripherals))
    /\ UNCHANGED <<tree_i, node, includes, peripherals, address_list, rvars, mvars, svars, dvars>>

\* create_addresses_file on the list returned
CreateAddressesFile ==
    /\ pc = "done"
    /\ pc' = "emitted"
    /\ address_list' = default_address_list(result)
    /\ UNCHANGED <<tree_i, node, includes, peripherals, retained, result, rvars, mvars, svars, dvars>>

Next ==
    \/ \E n \in Nodes : ExtractNode(n)
    \/ Normalize
    \/ CreateAddressesFile

Spec == Init /\ [][Next]_vars

-----------------------------------------------------------------------------
(* process_registers and create_base_files on one peripheral's registers. *)

\* the <registers> container of the peripheral: absent; one register with any
\* access and any fields; or registers without fields at any offsets
InitRegisters ==
    /\ PeripheralsIdle
    /\ includes = None
    /\ MainIdle
    /\ SchemaIdle
    /\ DescriptionIdle
    /\ rpc = "extract"
    /\ registers = <<>>
    /\ layout = NoLayout
    /\ \/ rtree = None
       \/ \E c \in RegisterChoices :
             \/ rtree = RegisterWithFields(c, None)
             \/ \E n \in 0..MaxFields : \E f \in [1..n -> FieldChoices] :
                   rtree = RegisterWithFields(c, Some([j \in 1..n |-> FieldBranch(j, f[j])]))
       \/ \E n \in 0..MaxRegisters : \E c \in [1..n -> PlainRegisterChoices] :
             rtree = Some([k \in 1..n |-> PlainRegister(k, c[k])])

\* process_registers(tree[i].find('registers'))
ProcessRegisters ==
    /\ rpc = "extract"
    /\ rpc' = "extracted"
    /\ registers' = process_registers(rtree)
    /\ UNCHANGED <<rtree, layout, pvars, mvars, svars, dvars>>

\* create_base_files, for the peripheral of these registers
CreateBaseFile ==
    /\ rpc = "extracted"
    /\ rpc' = "emitted"
    /\ layout' = base_layout([name |-> LayoutPeripheralName, registers |-> registers])
    /\ UNCHANGED <<rtree, registers, pvars, mvars, svars, dvars>>

NextRegisters ==
    \/ ProcessRegisters
    \/ CreateBaseFile

SpecRegisters == InitRegisters /\ [][NextRegisters]_vars

-----------------------------------------------------------------------------
(* The main program: the source is read, then the selected families of     *)
(* files are written, each followed by one call of run_clang_format.        *)

\* the nodes of the trees the main program is run on
MainNodes ==
    {n \in Nodes : /\ n.baseAddress = <<"0", "x", "5">>
                   /\ n.attrib \in {None, Some(<<"T", "1">>)}}

RECURSIVE MainTreesOf(_)
MainTreesOf(n) ==
    IF n = 0 THEN {<<>>}
    ELSE {Append(t, x) : t \in MainTreesOf(n - 1), x \in MainNodes}

MainTrees == UNION {MainTreesOf(n) : n \in 1..MaxMainNodes}

\* what subprocess.call does in run_clang_format: the tool runs and exits with
\* 0, it runs and exits with another code (the code is dropped), or the
\* executable cannot be started and FileNotFoundError is raised
FormatOutcomes == {"formatted", "nonzero exit", "executable missing"}

\* run_clang_format: no handler around subprocess.call, so the exception of a
\* missing executable leaves the calling function and the main program
run_clang_format(path, outcome) ==
    [calls  |-> Append(format_calls, [path |-> path, outcome |-> outcome]),
     raised |-> outcome = "executable missing"]

\* the files <directory>/<name>.h of the peripherals
HeadersIn(directory) ==
    {[directory |-> directory, file |-> model[k].name] : k \in 1..Len(model)}

MasterFile == [directory |-> "", file |-> <<"p", "e", "r", "i", "p", "h", "e", "r", "a", "l", "s">>]

AddressFile == [directory |-> "", file |-> <<"a", "d", "d", "r", "e", "s", "s", "e", "s">>]

InitMain ==
    /\ PeripheralsIdle
    /\ includes = None
    /\ RegistersIdle
    /\ mpc = "source"
    /\ args \in [base : BOOLEAN, fields : BOOLEAN, drivers : BOOLEAN]
    /\ model = <<>>
    /\ files = {}
    /\ format_calls = <<>>
    /\ SchemaIdle
    /\ DescriptionIdle

\* the .svd source is parsed: get_peripherals returns, or its failure ends the run
ReadSource(tree) ==
    /\ mpc = "source"
    /\ mpc' = IF get_peripherals(tree, includes).failed THEN "crashed" ELSE "base"
    /\ model' = get_peripherals(tree, includes).list
    /\ UNCHANGED <<args, files, format_calls, pvars, rvars, svars, dvars>>

\* one emission step of the main program: skipped when its flag is not set;
\* otherwise the files are written, then run_clang_format is called once
Emit(at, selected, written, path, next, outcome) ==
    /\ mpc = at
    /\ IF selected
       THEN /\ files' = files \cup written
            /\ format_calls' = run_clang_format(path, outcome).calls
            /\ mpc' = IF run_clang_format(path, outcome).raised THEN "crashed" ELSE next
       ELSE /\ mpc' = next
            /\ UNCHANGED <<files, format_calls>>
    /\ UNCHANGED <<args, model, pvars, rvars, svars, dvars>>

\* if base: create_base_files(...)
CreateBaseFiles(outcome) ==
    Emit("base", args.base, HeadersIn("Base"), "Base/*.h", "fields", outcome)

\* if fields: create_field_files(...)
CreateFieldFiles(outcome) ==
    Emit("fields", args.fields, HeadersIn("Fields"), "Fields/*.h", "drivers", outcome)

\* if drivers: create_driver_files(...)
CreateDriverFiles(outcome) ==
    Emit("drivers", args.drivers, HeadersIn("Drivers"), "Drivers/*.h", "peripherals", outcome)

\* create_peripheral_files(...): the aggregation files and the master file
CreatePeripheralFiles(outcome) ==
    Emit("peripherals", TRUE, HeadersIn("Registers") \cup {MasterFile},
         "peripherals.h", "addresses", outcome)

\* create_addresses_file(...)
CreateAddressesFileOfMain(outcome) ==
    Emit("addresses", TRUE, {AddressFile}, "addresses.h", "finished", outcome)

NextMain ==
    \/ \E tree \in MainTrees : ReadSource(tree)
    \/ \E outcome \in FormatOutcomes :
          \/ CreateBaseFiles(outcome)
          \/ CreateFieldFiles(outcome)
          \/ CreateDriverFiles(outcome)
          \/ CreatePeripheralFiles(outcome)
          \/ CreateAddressesFileOfMain(outcome)

SpecMain == InitMain /\ [][NextMain]_vars

-----------------------------------------------------------------------------
(* Claims about the main program. *)

FormatFailed ==
    \E c \in 1..Len(format_calls) : format_calls[c].outcome # "formatted"

\* the files of the families selected by the flags
SelectedFiles ==
    (IF args.base THEN HeadersIn("Base") ELSE {})
       \cup (IF args.fields THEN HeadersIn("Fields") ELSE {})
       \cup (IF args.drivers THEN HeadersIn("Drivers") ELSE {})
       \cup HeadersIn("Registers") \cup {MasterFile, AddressFile}

\* C7 (as claimed): a failure of the reformatting tool, the executable missing
\* or a non-zero exit, is recoverable: the run goes on to its end, where every
\* selected family of files is written, and no path is formatted twice.
C7_FormatFailureRecoverable ==
    FormatFailed =>
        /\ mpc # "crashed"
        /\ mpc = "finished" => SelectedFiles \subseteq files
        /\ \A c, d \in 1..Len(format_calls) :
              format_calls[c].path = format_calls[d].path => c = d

-----------------------------------------------------------------------------
(* Claims about get_peripherals and the address list. *)

Returned == pc \in {"done", "emitted"}

\* the number a C compiler reads in an emitted address 0x...
NumericAddress(a) == ParseInt16(a)

IsFamily(p) == p.derived # None

InstanceCount(p) == IF IsFamily(p) THEN Len(p.derived[1]) ELSE 1

RECURSIVE MacrosBefore(_)
\* the number of macros the address list holds for result[1..k]
MacrosBefore(k) == IF k = 0 THEN 0 ELSE MacrosBefore(k - 1) + InstanceCount(result[k])

\* C1 (as claimed): every peripheral with two or more instances has its instance
\* list sorted ascending by the numeric value of the base address, and its
\* <INSTANCE>_ADDRESS macros appear in the address list in non-decreasing numeric
\* order of the base address.
C1_InstancesInNumericOrder ==
    /\ Returned =>
         \A k \in 1..Len(result) :
            IsFamily(result[k]) =>
               \A a, b \in 1..Len(result[k].derived[1]) :
                  a < b => NumericAddress(result[k].derived[1][a].address)
                             <= NumericAddress(result[k].derived[1][b].address)
    /\ pc = "emitted" =>
         \A k \in 1..Len(result) :
            IsFamily(result[k]) =>
               \A a, b \in 1..InstanceCount(result[k]) :
                  a < b =>
                     NumericAddress(address_list[MacrosBefore(k - 1) + a].value)
                        <= NumericAddress(address_list[MacrosBefore(k - 1) + b].value)

IncludedGroups == {includes[1][k] : k \in 1..Len(includes[1])}

\* C2 (as claimed): with a non-empty include list, the peripherals retained are
\* exactly the extracted peripherals whose group is one of the includes, each
\* once, in the order of the schema.
C2_FilterKeepsMatchesInSchemaOrder ==
    (Returned /\ includes # None /\ includes[1] # <<>>) =>
        LET Matches(p) == p.group \in IncludedGroups
        IN  retained = SelectSeq(peripherals, Matches)

\* the groups whose single instance keeps its own name: timers, Ethernet, USB OTG
OverrideGroups ==
    {<<"T", "I", "M">>,
     <<"E", "T", "H", "E", "R", "N", "E", "T">>,
     <<"U", "S", "B", "_", "O", "T", "G">>}

\* C3 (as claimed): a retained peripheral with exactly one instance is named by
\* its instance when its group is an override group, and by its group otherwise.
C3_SingletonName ==
    Returned =>
        \A k \in 1..Len(retained) :
           Len(retained[k].derived) = 1 =>
              result[k].name = IF retained[k].group \in OverrideGroups
                               THEN retained[k].derived[1].name
                               ELSE retained[k].group

SameIgnoringCase(s, t) == Lower(s) = Lower(t)

\* the peripherals one of whose instances is named `ref`, whatever the case
OwnersOf(ref) ==
    {k \in 1..Len(peripherals) :
        \E a \in 1..Len(peripherals[k].derived) :
           SameIgnoringCase(ref, peripherals[k].derived[a].name)}

\* what the step of a node with a derivedFrom reference must do
C4_DerivedStep ==
    (pc = "extract" /\ tree_i' = tree_i + 1 /\ node'[1].attrib # None) =>
        LET n == node'[1]
        IN  IF OwnersOf(n.attrib[1]) # {}
            THEN /\ pc' = "extract"
                 /\ Len(peripherals') = Len(peripherals)
                 /\ \E k \in OwnersOf(n.attrib[1]) :
                       /\ \A j \in 1..Len(peripherals) : j # k => peripherals'[j] = peripherals[j]
                       /\ peripherals'[k].group = peripherals[k].group
                       /\ peripherals'[k].registers = peripherals[k].registers
                       /\ Len(peripherals'[k].derived) = Len(peripherals[k].derived) + 1
                       /\ \A a \in 1..Len(peripherals[k].derived) :
                             peripherals'[k].derived[a] = peripherals[k].derived[a]
                       /\ LET last == peripherals'[k].derived[Len(peripherals'[k].derived)]
                          IN  /\ SameIgnoringCase(last.name, n.name)
                              /\ NumericAddress(last.address) = NumericAddress(n.baseAddress)
            ELSE /\ pc' = "failed"
                 /\ peripherals' = peripherals

\* C4: a node with a derivedFrom reference is resolved, ignoring case, against
\* the instances of the peripherals extracted before it: when it resolves, one
\* instance is appended to that peripheral and no peripheral is added; when it
\* does not (a forward or unknown reference), the extraction fails and the list
\* of peripherals is left as it was.
C4_DerivedResolvedOrFatal == [][C4_DerivedStep]_vars

\* a run in which one reference resolved (a peripheral of two instances) and a
\* later one did not
C4_Witness ==
    /\ pc = "failed"
    /\ node # None
    /\ node[1].attrib # None
    /\ \E k \in 1..Len(peripherals) : Len(peripherals[k].derived) = 2

-----------------------------------------------------------------------------
(* Claims about process_registers, process_fields, process_values and the   *)
(* base layout.                                                             *)

Extracted == rpc \in {"extracted", "emitted"}

\* the register nodes read
Branches == IF rtree = None THEN <<>> ELSE rtree[1]

\* the field node of register k from which its extracted field j was built:
\* field names are unique within a register
FieldBranchOf(k, j) ==
    LET nodes == Branches[k].fields[1]
    IN  nodes[CHOOSE m \in 1..Len(nodes) :
                 SameIgnoringCase(nodes[m].name, registers[k].fields[j].name)]

\* the access mode the schema's access string stands for
ClaimedAccess(access) ==
    IF access = Some("read-only") THEN "RO"
    ELSE IF access = Some("write-only") THEN "WO"
    ELSE "RW"

\* C5 (as claimed): the access mode of every register and field is ReadOnly for
\* "read-only", WriteOnly for "write-only" and ReadWrite in every other case: no
\* access element, "read-write", any other string.
C5_AccessClassified ==
    Extracted =>
        \A k \in 1..Len(registers) :
           /\ registers[k].access = ClaimedAccess(Branches[k].access)
           /\ \A j \in 1..Len(registers[k].fields) :
                 registers[k].fields[j].access = ClaimedAccess(FieldBranchOf(k, j).access)

\* C6 (as claimed): a field whose node has no access element has the access
\* mode of its register.
C6_FieldAccessDefaultsToRegister ==
    Extracted =>
        \A k \in 1..Len(registers) :
           \A j \in 1..Len(registers[k].fields) :
              FieldBranchOf(k, j).access = None =>
                 registers[k].fields[j].access = registers[k].access

\* the scalar registers the claim has rendered as one alias
ClaimedSingleAlias(register) ==
    \/ Len(register.fields) = 0
    \/ Len(register.fields) = 1 /\ register.fields[1].width = register.width

\* C8 (as claimed): a scalar register is rendered as a single alias if and only
\* if it has no fields or exactly one field as wide as the register; every
\* other scalar register is rendered as a class with one alias per field.
C8_AliasIffNoOrOneFullWidthField ==
    rpc = "emitted" =>
        \A k \in 1..Len(registers) :
           registers[k].length = 0 =>
              \E d \in 1..Len(layout.registers_str) :
                 LET decl == layout.registers_str[d]
                 IN  /\ decl.name = registers[k].name
                     /\ IF ClaimedSingleAlias(registers[k])
                        THEN decl.kind = "alias" /\ decl.fields = <<>>
                        ELSE /\ decl.kind = "class"
                             /\ Len(decl.fields) = Len(registers[k].fields)
                             /\ \A j \in 1..Len(decl.fields) :
                                   decl.fields[j].name = registers[k].fields[j].name

\* the values of the <NAME>_ADDRESS macros an instance can have
InstanceBases ==
    {NumericAddress(addresses_of([name |-> <<>>, baseAddress |-> t]).address) :
        t \in BaseAddressTexts}

\* C9 (as claimed): with the template's address parameter bound to an
\* instance's base address, every register's address, the first one's too, is
\* the base address plus the register's address offset; another base address
\* shifts every register by the difference.
C9_RegisterAddressIsBasePlusOffset ==
    rpc = "emitted" =>
        \A k \in 1..Len(registers) :
           /\ \A base \in InstanceBases :
                 RegisterAddress(layout.addresses, base, k)
                    = base + ParseInt16(Branches[k].addressOffset)
           /\ \A b1, b2 \in InstanceBases :
                 RegisterAddress(layout.addresses, b2, k)
                    - RegisterAddress(layout.addresses, b1, k) = b2 - b1

\* C10: every field kept has 2^width values, numbered 0..2^width-1 in this
\* order and named Value0..Value(2^width-1), when its bit width is below 4, and
\* no values when its bit width is 4 or more; the width is the node's bitWidth.
C10_ValuesPerWidth ==
    Extracted =>
        \A k \in 1..Len(registers) :
           \A j \in 1..Len(registers[k].fields) :
              LET f == registers[k].fields[j]
              IN  /\ DecDigitsOf(f.width) = FieldBranchOf(k, j).bitWidth
                  /\ f.width < 4 =>
                        /\ Len(f.values) = 2 ^ f.width
                        /\ \A v \in 1..Len(f.values) :
                              /\ f.values[v].value = v - 1
                              /\ f.values[v].name = ValuePrefix \o <<Digits[v]>>
                  /\ f.width >= 4 => f.values = <<>>

\* a register that kept a field of width 3 and a field of width 4
C10_Witness ==
    /\ rpc = "extracted"
    /\ \E k \in 1..Len(registers) :
          \E j1, j2 \in 1..Len(registers[k].fields) :
             /\ FieldBranchOf(k, j1).bitWidth = <<"3">>
             /\ FieldBranchOf(k, j2).bitWidth = <<"4">>

-----------------------------------------------------------------------------
(* The main program on a schema whose nodes may lack elements.  find(x)     *)
(* returns None for an absent element and .text of None raises              *)
(* AttributeError, which nothing catches.  Every description of these       *)
(* schemas is one word without a line break, so process_description         *)
(* returns it.                                                              *)

\* process_fields raises on a field node: name, description, bitOffset and
\* bitWidth are read with find(x).text
field_raises(branch) ==
    \/ branch.name = None
    \/ branch.description = None
    \/ branch.bitOffset = None
    \/ branch.bitWidth = None

\* process_fields raises: no container raises nothing
fields_raise(tree) ==
    tree # None /\ \E j \in 1..Len(tree[1]) : field_raises(tree[1][j])

\* process_registers raises on a register node: name, description,
\* addressOffset and size are read with find(x).text, then its fields
register_raises(branch) ==
    \/ branch.name = None
    \/ branch.description = None
    \/ branch.addressOffset = None
    \/ branch.size = None
    \/ fields_raise(branch.fields)

\* process_registers raises: no container raises nothing
registers_raise(tree) ==
    tree # None /\ \E k \in 1..Len(tree[1]) : register_raises(tree[1][k])

\* the body of the extraction loop raises AttributeError on node n: name and
\* baseAddress are read of every node; groupName, description and the
\* registers only when the node is not derived
node_raises(n) ==
    \/ n.name = None
    \/ n.baseAddress = None
    \/ /\ ~Truthy(derived_of(n))
       /\ \/ n.groupName = None
          \/ n.description = None
          \/ registers_raise(n.registers)

\* the texts read of a field, a register and a peripheral node on which nothing
\* raised; of a derived node the group and the registers are not read
field_texts(branch) ==
    [name |-> branch.name[1], bitOffset |-> branch.bitOffset[1],
     bitWidth |-> branch.bitWidth[1], access |-> branch.access]

register_texts(branch) ==
    [name |-> branch.name[1], addressOffset |-> branch.addressOffset[1],
     size |-> branch.size[1], array |-> branch.array, access |-> branch.access,
     fields |-> IF branch.fields = None THEN None
                ELSE Some([j \in 1..Len(branch.fields[1]) |->
                              field_texts(branch.fields[1][j])])]

node_texts(n) ==
    IF Truthy(derived_of(n))
    THEN [attrib |-> n.attrib, name |-> n.name[1], baseAddress |-> n.baseAddress[1],
          groupName |-> <<>>, registers |-> None]
    ELSE [attrib |-> n.attrib, name |-> n.name[1], baseAddress |-> n.baseAddress[1],
          groupName |-> n.groupName[1],
          registers |-> IF n.registers = None THEN None
                        ELSE Some([k \in 1..Len(n.registers[1]) |->
                                      register_texts(n.registers[1][k])])]

\* the body of the extraction loop for a node that may lack elements
extract_schema_node(list, n) ==
    IF node_raises(n) THEN [failed |-> TRUE, list |-> list]
    ELSE extract_node(list, node_texts(n))

RECURSIVE extract_schema(_)
\* the extraction loop over a tree of such nodes
extract_schema(tree) ==
    IF tree = <<>> THEN [failed |-> FALSE, list |-> <<>>]
    ELSE LET before == extract_schema(SubSeq(tree, 1, Len(tree) - 1))
         IN  IF before.failed THEN before
             ELSE extract_schema_node(before.list, tree[Len(tree)])

\* get_peripherals on a tree of such nodes
get_peripherals_of_schema(tree, incs) ==
    IF extract_schema(tree).failed THEN [failed |-> TRUE, list |-> <<>>]
    ELSE [failed |-> FALSE,
          list   |-> normalize_all(retain(incs, extract_schema(tree).list))]

\* the number of nodes of the schema
MaxSchemaNodes == 2

\* what a node of the schema lacks: nothing, or one element or container of the
\* peripheral node, of its register or of the field of its register
LackChoices ==
    {"nothing", "name", "description", "baseAddress", "groupName", "registers",
     "register name", "register description", "addressOffset", "size", "fields",
     "field name", "field description", "bitOffset", "bitWidth"}

\* find(element) on a node that lacks `lacks`
Found(lacks, element, text) == IF lacks = element THEN None ELSE Some(text)

SchemaDescription == <<"d">>

SchemaField(lacks) ==
    [name        |-> Found(lacks, "field name", <<"f", "1">>),
     description |-> Found(lacks, "field description", SchemaDescription),
     bitOffset   |-> Found(lacks, "bitOffset", <<"0">>),
     bitWidth    |-> Found(lacks, "bitWidth", <<"8">>),
     access      |-> None]

SchemaRegister(lacks) ==
    [name          |-> Found(lacks, "register name", <<"r", "1">>),
     description   |-> Found(lacks, "register description", SchemaDescription),
     addressOffset |-> Found(lacks, "addressOffset", <<"0", "x", "4">>),
     size          |-> Found(lacks, "size", <<"0", "x", "2", "0">>),
     array         |-> None,
     access        |-> None,
     fields        |-> Found(lacks, "fields", <<SchemaField(lacks)>>)]

\* the peripheral t1 of group GP, or a node t2 derived from T1
SchemaNode(derived, lacks) ==
    [attrib      |-> IF derived THEN Some(<<"T", "1">>) ELSE None,
     name        |-> Found(lacks, "name", IF derived THEN <<"t", "2">> ELSE <<"t", "1">>),
     description |-> Found(lacks, "description", SchemaDescription),
     baseAddress |-> Found(lacks, "baseAddress",
                           IF derived THEN <<"0", "x", "5">> ELSE <<"0", "x", "4", "a">>),
     groupName   |-> Found(lacks, "groupName", <<"G", "P">>),
     registers   |-> Found(lacks, "registers", <<SchemaRegister(lacks)>>)]

\* the file json.dump writes when --json is given
JsonFile == [directory |-> "", file |-> <<"j", "s", "o", "n">>]

InitSchema ==
    /\ PeripheralsIdle
    /\ includes = None
    /\ RegistersIdle
    /\ DescriptionIdle
    /\ mpc = "source"
    /\ args \in [base : BOOLEAN, fields : BOOLEAN, drivers : BOOLEAN]
    /\ model = <<>>
    /\ files = {}
    /\ format_calls = <<>>
    /\ \E n \in 1..MaxSchemaNodes :
          \E d \in [1..n -> BOOLEAN], l \in [1..n -> LackChoices] :
             schema = [k \in 1..n |-> SchemaNode(d[k], l[k])]
    /\ need_json \in BOOLEAN

\* the .svd branch of the main program: get_peripherals returns and the model
\* is dumped when --json is given, or an exception of get_peripherals ends the
\* run
ReadSchema ==
    /\ mpc = "source"
    /\ mpc' = IF get_peripherals_of_schema(schema, includes).failed
              THEN "crashed" ELSE "base"
    /\ model' = get_peripherals_of_schema(schema, includes).list
    /\ files' = IF ~get_peripherals_of_schema(schema, includes).failed /\ need_json
                THEN files \cup {JsonFile} ELSE files
    /\ UNCHANGED <<args, format_calls, pvars, rvars, svars, dvars>>

NextSchema ==
    \/ ReadSchema
    \/ \E outcome \in FormatOutcomes :
          \/ CreateBaseFiles(outcome)
          \/ CreateFieldFiles(outcome)
          \/ CreateDriverFiles(outcome)
          \/ CreatePeripheralFiles(outcome)
          \/ CreateAddressesFileOfMain(outcome)

SpecSchema == InitSchema /\ [][NextSchema]_vars

-----------------------------------------------------------------------------
(* Claims about a schema that lacks elements. *)

\* a field, register or peripheral node lacks one of the elements the claim
\* names: name, description, base address, address offset, size
FieldLacks(branch) == branch.name = None \/ branch.description = None

RegisterLacks(branch) ==
    \/ branch.name = None
    \/ branch.description = None
    \/ branch.addressOffset = None
    \/ branch.size = None
    \/ /\ branch.fields # None
       /\ \E j \in 1..Len(branch.fields[1]) : FieldLacks(branch.fields[1][j])

PeripheralLacks(n) ==
    \/ n.name = None
    \/ n.description = None
    \/ n.baseAddress = None
    \/ /\ n.registers # None
       /\ \E k \in 1..Len(n.registers[1]) : RegisterLacks(n.registers[1][k])

SchemaLacksRequired == \E k \in 1..Len(schema) : PeripheralLacks(schema[k])

\* C11 (as claimed): when a peripheral, register or field node of the schema
\* lacks a required element, the run aborts before any file is written: it
\* never gets past reading the source, and no file exists at any time.
C11_MissingElementAbortsBeforeAnyFile ==
    SchemaLacksRequired => /\ files = {}
                           /\ mpc \in {"source", "crashed"}

-----------------------------------------------------------------------------
(* process_description as a state machine: one action for the find at the   *)
(* head of the loop, one for the rest of its body.                           *)

\* the longest description; the inputs are every text up to this length, and a
\* text the loop makes longer is followed up to it
MaxDescriptionLen == 4

LineBreak == "\n"

Space == " "

DescriptionChars == {"a", Space, LineBreak}

\* description.find('\n'): the index, counted from 0, of the first line break,
\* or -1
find_line_break(text) ==
    IF \E k \in 1..Len(text) : text[k] = LineBreak
    THEN (CHOOSE k \in 1..Len(text) :
             text[k] = LineBreak /\ \A j \in 1..(k - 1) : text[j] # LineBreak) - 1
    ELSE -1

\* the for loop: `end` is the index of the first character behind the line
\* break that is not a space, or stays `begin` when there is none
end_of(text, b) ==
    LET NotSpace(i) == text[i + 1] # Space
        behind == (b + 1)..(Len(text) - 1)
    IN  IF \E i \in behind : NotSpace(i)
        THEN CHOOSE i \in behind : NotSpace(i) /\ \A j \in (b + 1)..(i - 1) : ~NotSpace(j)
        ELSE b

\* text[n:], where a negative n counts from the end
slice_from(text, n) ==
    IF n >= 0 THEN DropFirst(text, n)
    ELSE IF Len(text) + n <= 0 THEN text
    ELSE DropFirst(text, Len(text) + n)

\* temp = description[:begin] + description[end - 1:]
cut_line_break(text, b) == SubSeq(text, 1, b) \o slice_from(text, end_of(text, b) - 1)

InitDescription ==
    /\ PeripheralsIdle
    /\ includes = None
    /\ RegistersIdle
    /\ MainIdle
    /\ SchemaIdle
    /\ dpc = "find"
    /\ \E n \in 0..MaxDescriptionLen : \E text \in [1..n -> DescriptionChars] :
          description = [k \in 1..n |-> text[k]]
    /\ begin = None

\* begin = description.find('\n'); the loop is left when there is no line break
FindLineBreak ==
    /\ dpc = "find"
    /\ begin' = Some(find_line_break(description))
    /\ dpc' = IF find_line_break(description) = -1 THEN "returned" ELSE "cut"
    /\ UNCHANGED <<description, pvars, rvars, mvars, svars>>

\* the for loop and the two assignments; then the head of the loop again
CutLineBreak ==
    /\ dpc = "cut"
    /\ Len(cut_line_break(description, begin[1])) <= MaxDescriptionLen
    /\ description' = cut_line_break(description, begin[1])
    /\ dpc' = "find"
    /\ UNCHANGED <<begin, pvars, rvars, mvars, svars>>

NextDescription ==
    \/ FindLineBreak
    \/ CutLineBreak

\* the interpreter goes on to the next statement of a function that has not
\* returned
SpecDescription ==
    InitDescription /\ [][NextDescription]_vars /\ WF_vars(NextDescription)

-----------------------------------------------------------------------------
(* Claims about process_description. *)

HasLineBreak(text) == \E k \in 1..Len(text) : text[k] = LineBreak

\* C12 (as claimed): process_description terminates for every input text, and
\* the text it returns contains no line break.
C12_ProcessDescriptionTerminates ==
    <>(dpc = "returned" /\ ~HasLineBreak(description))

====
